---------------------------- MODULE Spec2Model ----------------------------
(***************************************************************************)
(* Model of calypsetup's builder (src/builder.py): find_potcar,            *)
(* create_input_dat, calculate_distance_of_ion, adjust_input_dat and the   *)
(* orchestrating setup_calypso.                                            *)
(*                                                                         *)
(* Conventions                                                             *)
(*  - A Python str is a sequence of atoms (one-character strings, or a     *)
(*    literal piece of a template kept whole).  str(int) and int(str) are  *)
(*    modelled digit by digit (IntToStr, StrToInt).                        *)
(*  - A radius (RWIGS) is an integer number of hundredths of an angstrom.  *)
(*  - A float that is formatted (the pressure) is a decimal: a sign, its    *)
(*    significant digits d1..dn and an exponent, 0.d1..dn * 10^exp; the    *)
(*    digits of a non-zero value begin and end with a non-zero digit.      *)
(*  - Optional[x] is a sequence of length at most one: None == <<>>.       *)
(*  - A dict is a sequence of <<key, value>> pairs in insertion order.     *)
(*  - A POTCAR text is a sequence of tokens: an occurrence of              *)
(*    "RWIGS = <number>", a ";" between two occurrences, or other text.    *)
(*  - The file system is `dirs` (the directories that exist) and `files`   *)
(*    (a function from the paths <<directory, name>> that exist to their   *)
(*    content).                                                            *)
(***************************************************************************)
EXTENDS Integers, Sequences, FiniteSets, TLC

VARIABLES
    entry,                \* the function of builder.py that was called
    config,               \* the SetupConfig / the arguments of the call
    potcar_root,          \* the pseudopotential tree: [dirs, text]
    dirs,                 \* directories existing at the destination
    files,                \* path -> content
    pc,                   \* position in the called function
    error,                \* the exception that ended the call, if any
    idx,                  \* loop index of the loop pc is in
    potcar_content,       \* find_potcar: texts read so far
    potcar_paths,         \* find_potcar: potcar_path chosen for each element
    rwigs_values,         \* find_potcar: dict element -> radius
    picked_rwigs,         \* find_potcar: list of the chosen radii
    min_latom_dis,        \* Optional radius
    pstress_kbar_str,     \* setup_calypso: the formatted PSTRESS value
    distance_of_ion_matrix,
    base_area,            \* Optional area
    created_directories,  \* setup_calypso: list being built
    unlink_failed,        \* setup_calypso: files whose unlink() raised
    result                \* Optional return value

fsVars == <<dirs, files>>
potcarVars == <<potcar_content, potcar_paths, rwigs_values, picked_rwigs, min_latom_dis>>
setupVars == <<pstress_kbar_str, distance_of_ion_matrix, base_area, created_directories, unlink_failed>>
inputVars == <<entry, config, potcar_root>>
vars == <<inputVars, fsVars, potcarVars, setupVars, pc, error, idx, result>>

---------------------------------------------------------------------------
(* Bounds of the model *)

MaxMults == 2     \* longest list of formula multipliers
MaxMult == 2      \* largest formula multiplier
MaxSpecies == 2   \* most entries of a radius map given to calculate_distance_of_ion

---------------------------------------------------------------------------
(* Python built-ins *)

None == <<>>
Some(x) == <<x>>

DigitChars == <<"0", "1", "2", "3", "4", "5", "6", "7", "8", "9">>

RECURSIVE IntToStr(_)
IntToStr(n) ==
    IF n < 0 THEN <<"-">> \o IntToStr(-n)
    ELSE IF n < 10 THEN <<DigitChars[n + 1]>>
    ELSE IntToStr(n \div 10) \o <<DigitChars[(n % 10) + 1]>>

DigitValue(c) == CHOOSE d \in 0..9 : DigitChars[d + 1] = c

IsDigits(s) == Len(s) > 0 /\ \A i \in 1..Len(s) : \E d \in 0..9 : DigitChars[d + 1] = s[i]

RECURSIVE DigitsToNat(_)
DigitsToNat(s) ==
    IF Len(s) = 0 THEN 0
    ELSE 10 * DigitsToNat(SubSeq(s, 1, Len(s) - 1)) + DigitValue(s[Len(s)])

\* int(text) for the texts int() accepts: an optional sign and decimal digits
IsIntText(s) ==
    IF Len(s) > 0 /\ s[1] \in {"-", "+"} THEN IsDigits(Tail(s)) ELSE IsDigits(s)

StrToInt(s) ==
    IF s[1] = "-" THEN 0 - DigitsToNat(Tail(s))
    ELSE IF s[1] = "+" THEN DigitsToNat(Tail(s))
    ELSE DigitsToNat(s)

RECURSIVE Join(_, _)
Join(sep, parts) ==
    IF Len(parts) = 0 THEN <<>>
    ELSE IF Len(parts) = 1 THEN parts[1]
    ELSE parts[1] \o sep \o Join(sep, Tail(parts))

RECURSIVE Concat(_)
Concat(parts) == IF Len(parts) = 0 THEN <<>> ELSE parts[1] \o Concat(Tail(parts))

RECURSIVE SeqMin(_)
SeqMin(s) ==
    IF Len(s) = 1 THEN s[1]
    ELSE LET m == SeqMin(Tail(s)) IN IF m < s[1] THEN m ELSE s[1]

Min2(a, b) == IF b < a THEN b ELSE a

\* dict[key] = value: a new key goes last, an existing key keeps its place
DictHas(d, k) == \E i \in 1..Len(d) : d[i][1] = k
\* a buggy variant that puts a new key first
DictSetFront(d, k, v) ==
    IF DictHas(d, k)
    THEN [i \in 1..Len(d) |-> IF d[i][1] = k THEN <<k, v>> ELSE d[i]]
    ELSE <<(<<k, v>>)>> \o d
DictSet(d, k, v) ==
    IF DictHas(d, k)
    THEN [i \in 1..Len(d) |-> IF d[i][1] = k THEN <<k, v>> ELSE d[i]]
    ELSE Append(d, <<k, v>>)
DictGet(d, k) == d[CHOOSE i \in 1..Len(d) : d[i][1] = k][2]
DictKeys(d) == [i \in 1..Len(d) |-> d[i][1]]

\* list.index(x): the first position of x
ListIndex(s, x) == CHOOSE i \in 1..Len(s) : s[i] = x /\ \A j \in 1..(i - 1) : s[j] # x

---------------------------------------------------------------------------
(* The file system *)

Root == <<".">>             \* the destination directory
NoError == [type |-> "none", names |-> <<>>]

FileExists(fs, dir, name) == <<dir, name>> \in DOMAIN fs
WriteFile(fs, dir, name, content) ==
    [p \in (DOMAIN fs) \cup {<<dir, name>>} |-> IF p = <<dir, name>> THEN content ELSE fs[p]]
\* a buggy variant that moves the file
MoveFile(fs, fromDir, toDir, name) ==
    [p \in ((DOMAIN fs) \cup {<<toDir, name>>}) \ {<<fromDir, name>>} |->
        IF p = <<toDir, name>> THEN fs[<<fromDir, name>>] ELSE fs[p]]
CopyFile(fs, fromDir, toDir, name) == WriteFile(fs, toDir, name, fs[<<fromDir, name>>])
\* a buggy variant that leaves the file in place
UnlinkKeeps(fs, dir, name) == fs
Unlink(fs, dir, name) == [p \in (DOMAIN fs) \ {<<dir, name>>} |-> fs[p]]
NoFiles == [p \in {} |-> <<>>]

---------------------------------------------------------------------------
(* find_potcar *)

Suffixes == <<"_pv", "_sv", "", "_s">>

Rwigs(v) == [k |-> "RWIGS", v |-> v]
Semi == [k |-> ";", v |-> 0]
Txt == [k |-> "text", v |-> 0]

\* the priority order of a buggy variant: the bare name first
FindPotcarPathBareFirst(element, available_dirs) ==
    LET order == <<"", "_pv", "_sv", "_s">>
        hits == {i \in 1..Len(order) : <<element, order[i]>> \in available_dirs}
    IN  IF hits = {} THEN None
        ELSE Some(<<element, order[CHOOSE i \in hits : \A j \in hits : i <= j]>>)

\* next(... for suffix in ("_pv", "_sv", "", "_s") if name in available_dirs, None)
FindPotcarPath(element, available_dirs) ==
    LET hits == {i \in 1..Len(Suffixes) : <<element, Suffixes[i]>> \in available_dirs}
    IN  IF hits = {} THEN None
        ELSE Some(<<element, Suffixes[CHOOSE i \in hits : \A j \in hits : i <= j]>>)

\* pair_re.search(text): the leftmost "RWIGS = a ; RWIGS = b"
PairSearch(text) ==
    LET hits == {i \in 1..(Len(text) - 2) :
                    /\ text[i].k = "RWIGS"
                    /\ text[i + 1].k = ";"
                    /\ text[i + 2].k = "RWIGS"}
    IN  IF hits = {} THEN None
        ELSE LET i == CHOOSE h \in hits : \A j \in hits : h <= j
             IN  Some(<<text[i].v, text[i + 2].v>>)

\* single_re.findall(text)
SingleFindall(text) ==
    LET occ == SelectSeq(text, LAMBDA t : t.k = "RWIGS")
    IN  [i \in 1..Len(occ) |-> occ[i].v]

\* a buggy variant that takes the first number of the pair, or the first occurrence
ChosenRwigsFirst(text) ==
    LET match == PairSearch(text)
        vals == SingleFindall(text)
    IN  IF match # None THEN Some(match[1][1])
        ELSE IF Len(vals) = 0 THEN None
        ELSE Some(vals[1])

\* a buggy variant that falls back to a radius of 0 when no RWIGS is found
ChosenRwigsOrZero(text) ==
    LET match == PairSearch(text)
        vals == SingleFindall(text)
    IN  IF match # None THEN Some(Min2(match[1][1], match[1][2]))
        ELSE IF Len(vals) = 0 THEN Some(0)
        ELSE Some(SeqMin(vals))

\* lines 85-92: the radius chosen from one file text; None when line 91 raises
ChosenRwigs(text) ==
    LET match == PairSearch(text)
        vals == SingleFindall(text)
    IN  IF match # None THEN Some(Min2(match[1][1], match[1][2]))
        ELSE IF Len(vals) = 0 THEN None
        ELSE Some(SeqMin(vals))

\* lines 55-68: create the destination, list the directories of the root
FindPotcarStart ==
    /\ pc = "find_potcar"
    /\ dirs' = dirs \cup {Root}
    /\ potcar_content' = <<>>
    /\ potcar_paths' = <<>>
    /\ rwigs_values' = <<>>
    /\ picked_rwigs' = <<>>
    /\ idx' = 1
    /\ pc' = "potcar_loop"
    /\ UNCHANGED <<inputVars, files, min_latom_dis, setupVars, error, result>>

\* lines 70-96: one iteration of the loop over the elements
FindPotcarElement ==
    /\ pc = "potcar_loop"
    /\ idx <= Len(config.elements)
    /\ LET element == config.elements[idx]
           potcar_path == FindPotcarPath(element, potcar_root.dirs)
       IN  IF potcar_path = None
           THEN /\ error' = [type |-> "FileNotFoundError",
                              names |-> <<element, "potcar_root">>]
                /\ pc' = "raised"
                /\ UNCHANGED <<potcarVars, idx>>
           ELSE LET text == potcar_root.text[potcar_path[1]]
                IN  IF text = None
                    THEN \* read_text() of a directory without a POTCAR file
                         /\ error' = [type |-> "FileNotFoundError",
                                       names |-> <<"potcar_path">>]
                         /\ pc' = "raised"
                         /\ potcar_paths' = Append(potcar_paths, potcar_path[1])
                         /\ UNCHANGED <<potcar_content, rwigs_values, picked_rwigs,
                                        min_latom_dis, idx>>
                    ELSE LET chosen == ChosenRwigs(text[1])
                         IN  IF chosen = None
                             THEN /\ error' = [type |-> "ValueError",
                                                names |-> <<"RWIGS", "potcar_path">>]
                                  /\ pc' = "raised"
                                  /\ potcar_content' = Append(potcar_content, text[1])
                                  /\ potcar_paths' = Append(potcar_paths, potcar_path[1])
                                  /\ UNCHANGED <<rwigs_values, picked_rwigs,
                                                 min_latom_dis, idx>>
                             ELSE /\ potcar_content' = Append(potcar_content, text[1])
                                  /\ potcar_paths' = Append(potcar_paths, potcar_path[1])
                                  /\ rwigs_values' = DictSet(rwigs_values, element, chosen[1])
                                  /\ picked_rwigs' = Append(picked_rwigs, chosen[1])
                                  /\ idx' = idx + 1
                                  /\ UNCHANGED <<min_latom_dis, pc, error>>
    /\ UNCHANGED <<inputVars, fsVars, setupVars, result>>

\* lines 98-102: write the concatenated POTCAR, return the radii and their minimum
FindPotcarWrite ==
    /\ pc = "potcar_loop"
    /\ idx > Len(config.elements)
    /\ files' = WriteFile(files, Root, "POTCAR", Concat(potcar_content))
    /\ min_latom_dis' = IF Len(picked_rwigs) > 0 THEN Some(SeqMin(picked_rwigs)) ELSE None
    /\ IF entry = "find_potcar"
       THEN /\ result' = Some(<<rwigs_values, min_latom_dis'>>)
            /\ pc' = "returned"
       ELSE /\ result' = result
            /\ pc' = "format_pstress"
    /\ UNCHANGED <<inputVars, dirs, potcar_content, potcar_paths, rwigs_values,
                   picked_rwigs, setupVars, error, idx>>

---------------------------------------------------------------------------
(* Rendering *)

\* a float written in decimal: (-1)^neg * 0.d1 d2 ... dn * 10^exp
Dec(neg, digits, exp) == [neg |-> neg, digits |-> digits, exp |-> exp]

\* x < 0
IsNegative(x) == x.neg /\ Len(x.digits) > 0

\* line 20: pressure_gpa * 10.0 (the rounding of the product is left out)
TimesTen(x) == IF Len(x.digits) = 0 THEN x ELSE [x EXCEPT !.exp = @ + 1]

Zeros(n) == [i \in 1..n |-> 0]
ToChars(ds) == [i \in 1..Len(ds) |-> DigitChars[ds[i] + 1]]

RECURSIVE Pow10(_)
Pow10(n) == IF n = 0 THEN 1 ELSE 10 * Pow10(n - 1)

RECURSIVE DigitsValue(_)
DigitsValue(ds) ==
    IF Len(ds) = 0 THEN 0
    ELSE 10 * DigitsValue(SubSeq(ds, 1, Len(ds) - 1)) + ds[Len(ds)]

RECURSIVE StripTrailingZeros(_)
StripTrailingZeros(ds) ==
    IF Len(ds) > 0 /\ ds[Len(ds)] = 0 THEN StripTrailingZeros(SubSeq(ds, 1, Len(ds) - 1)) ELSE ds

\* the digits before and after the decimal point
IntDigits(x) ==
    IF x.exp <= 0 THEN <<>>
    ELSE [i \in 1..x.exp |-> IF i <= Len(x.digits) THEN x.digits[i] ELSE 0]
FracDigits(x) ==
    IF x.exp <= 0 THEN Zeros(0 - x.exp) \o x.digits
    ELSE IF x.exp >= Len(x.digits) THEN <<>>
    ELSE SubSeq(x.digits, x.exp + 1, Len(x.digits))

\* the fraction is above 1 - 1e-9: nine 9s and something after them
NearAbove(x) ==
    LET f == FracDigits(x)
    IN  /\ Len(f) > 9
        /\ \A i \in 1..9 : f[i] = 9
\* the fraction is below 1e-9: nine 0s
NearBelow(x) ==
    LET f == FracDigits(x)
    IN  \A i \in 1..9 : i <= Len(f) => f[i] = 0

\* line 24: abs(x - round(x)) < 1e-9, for x >= 0
NearInteger(x) == NearBelow(x) \/ NearAbove(x)

\* line 25: int(round(x)) when NearInteger(x), for integer parts below 2^31
RoundToInt(x) == DigitsValue(IntDigits(x)) + (IF NearAbove(x) THEN 1 ELSE 0)

\* a buggy variant that cuts the digits after the sixth instead of rounding
FormatG6Truncated(x) ==
    LET n == Len(x.digits)
        six == DigitsValue([i \in 1..6 |-> IF i <= n THEN x.digits[i] ELSE 0])
        X == x.exp - 1
        mant == [i \in 1..6 |-> (six \div Pow10(6 - i)) % 10]
        sig == StripTrailingZeros(mant)
    IN  IF X >= 0 /\ X < 6
        THEN LET frac == StripTrailingZeros(SubSeq(mant, X + 2, 6))
             IN  ToChars(SubSeq(mant, 1, X + 1))
                    \o (IF Len(frac) = 0 THEN <<>> ELSE <<".">> \o ToChars(frac))
        ELSE IF X < 0 /\ X >= 0 - 4
        THEN <<"0", ".">> \o ToChars(Zeros(0 - X - 1)) \o ToChars(sig)
        ELSE LET absX == IF X < 0 THEN 0 - X ELSE X
             IN  ToChars(<<sig[1]>>)
                    \o (IF Len(sig) > 1 THEN <<".">> \o ToChars(Tail(sig)) ELSE <<>>)
                    \o <<"e", IF X < 0 THEN "-" ELSE "+">>
                    \o (IF absX < 10 THEN <<"0">> ELSE <<>>) \o IntToStr(absX)

\* line 26: f"{x:.6g}" for x > 0: x rounded to six significant digits (a tie
\* goes to the even digit), trailing zeros dropped; fixed notation when the
\* decimal exponent is between -4 and 5, else d.ddddde+XX
FormatG6(x) ==
    LET n == Len(x.digits)
        first6 == DigitsValue([i \in 1..6 |-> IF i <= n THEN x.digits[i] ELSE 0])
        round_up == /\ n > 6
                    /\ \/ x.digits[7] > 5
                       \/ x.digits[7] = 5 /\ (n > 7 \/ first6 % 2 = 1)
        carried == round_up /\ first6 = 999999
        six == IF carried THEN 100000 ELSE IF round_up THEN first6 + 1 ELSE first6
        X == x.exp - 1 + (IF carried THEN 1 ELSE 0)
        mant == [i \in 1..6 |-> (six \div Pow10(6 - i)) % 10]
        sig == StripTrailingZeros(mant)
    IN  IF X >= 0 /\ X < 6
        THEN LET frac == StripTrailingZeros(SubSeq(mant, X + 2, 6))
             IN  ToChars(SubSeq(mant, 1, X + 1))
                    \o (IF Len(frac) = 0 THEN <<>> ELSE <<".">> \o ToChars(frac))
        ELSE IF X < 0 /\ X >= 0 - 4
        THEN <<"0", ".">> \o ToChars(Zeros(0 - X - 1)) \o ToChars(sig)
        ELSE LET absX == IF X < 0 THEN 0 - X ELSE X
             IN  ToChars(<<sig[1]>>)
                    \o (IF Len(sig) > 1 THEN <<".">> \o ToChars(Tail(sig)) ELSE <<>>)
                    \o <<"e", IF X < 0 THEN "-" ELSE "+">>
                    \o (IF absX < 10 THEN <<"0">> ELSE <<>>) \o IntToStr(absX)

\* a buggy variant without the check of line 21
FormatPstressKbarUnchecked(pressure_gpa) ==
    LET pstress_kbar == TimesTen(pressure_gpa)
        sign == IF IsNegative(pstress_kbar) THEN <<"-">> ELSE <<>>
    IN  IF NearInteger(pstress_kbar) THEN Some(sign \o IntToStr(RoundToInt(pstress_kbar)))
        ELSE Some(sign \o FormatG6(pstress_kbar))

\* _format_pstress_kbar: the PSTRESS text; None when line 22 raises
FormatPstressKbar(pressure_gpa) ==
    LET pstress_kbar == TimesTen(pressure_gpa)
    IN  IF IsNegative(pstress_kbar) THEN None
        ELSE IF NearInteger(pstress_kbar) THEN Some(IntToStr(RoundToInt(pstress_kbar)))
        ELSE Some(FormatG6(pstress_kbar))

\* the two INCAR templates, lines 276-311; the lines common to both are atoms
Incar1Content(pstress) ==
    << <<"SYSTEM = opt\n">>, <<"PREC = Accurate\n">>, <<"ENCUT = 300\n">>,
       <<"KSPACING = 0.5\n">>, <<"EDIFF = 1e-4\n">>, <<"EDIFFG = -0.1\n">>,
       <<"IBRION = 2\n">>, <<"ISIF = 3\n">>, <<"NSW = 60\n">>, <<"ISTART = 0\n">>,
       <<"ICHARG = 2\n">>, <<"ISMEAR = 1\n">>, <<"SIGMA = 0.05\n">>, <<"LREAL = Auto\n">>,
       <<"LCHARG = .F.\n">>, <<"LWAVE = .F.\n">>, <<"POTIM = 0.02\n">>,
       <<"PSTRESS = ">> \o pstress >>
Incar2Content(pstress) ==
    << <<"SYSTEM = opt\n">>, <<"PREC = Accurate\n">>, <<"ENCUT = 400\n">>,
       <<"KSPACING = 0.25\n">>, <<"EDIFF = 5e-5\n">>, <<"EDIFFG = -0.03\n">>,
       <<"IBRION = 2\n">>, <<"ISIF = 3\n">>, <<"NSW = 60\n">>, <<"ISTART = 0\n">>,
       <<"ICHARG = 2\n">>, <<"ISMEAR = 1\n">>, <<"SIGMA = 0.05\n">>, <<"LREAL = Auto\n">>,
       <<"LCHARG = .F.\n">>, <<"LWAVE = .F.\n">>, <<"POTIM = 0.02\n">>,
       <<"PSTRESS = ">> \o pstress >>

\* the three job scripts, lines 322-368; the #SBATCH and ulimit lines of each
\* are one atom
CalypsoFullnodeContent(calypso_exec) ==
    << <<"#!/bin/bash\n">>, <<"#SBATCH caly48 ...\n">>, <<"ulimit ...\n">>,
       <<"scontrol show hostname \"$SLURM_NODELIST\" > machinefile\n">>,
       <<calypso_exec, "   > caly.log 2>&1">> >>
CalypsoContent(calypso_exec) ==
    << <<"#!/bin/bash\n">>, <<"#SBATCH calypso ...\n">>, <<"ulimit ...\n">>,
       <<"##for CALYPSO6.0\n">>, <<calypso_exec>> >>
SubmitShContent(vasp_exec) ==
    << <<"#!/bin/bash\n">>, <<"export OMP_NUM_THREADS=1\n">>,
       <<"export I_MPI_PMI_LIBRARY=/usr/lib64/libpmi2.so\n">>,
       <<"srun ... \\\n">>, <<"        ", vasp_exec, " > vasp.out  2> vasp.err">> >>

\* a buggy variant that fills each row from the row's radius alone
CalculateDistanceOfIonRowOnly(rwigs) ==
    [i \in 1..Len(rwigs) |-> [j \in 1..Len(rwigs) |-> (rwigs[i][2] + rwigs[i][2]) * 6]]

\* calculate_distance_of_ion: entries in thousandths of an angstrom,
\* (r_i + r_j) * 0.6 with the radii in hundredths
CalculateDistanceOfIon(rwigs) ==
    [i \in 1..Len(rwigs) |-> [j \in 1..Len(rwigs) |-> (rwigs[i][2] + rwigs[j][2]) * 6]]

Pad3(n) ==
    <<DigitChars[(n \div 100) + 1], DigitChars[((n \div 10) % 10) + 1], DigitChars[(n % 10) + 1]>>

\* f"{value:.6f}" of a non-negative value given in thousandths
FormatF6(value) == IntToStr(value \div 1000) \o <<".">> \o Pad3(value % 1000) \o <<"0", "0", "0">>

\* str(float) of a non-negative radius given in hundredths: 110 -> 1.1
ReprRadius(r) ==
    IntToStr(r \div 100) \o <<".">> \o
        (IF r % 100 = 0 THEN <<"0">>
         ELSE IF r % 10 = 0 THEN <<DigitChars[((r % 100) \div 10) + 1]>>
         ELSE <<DigitChars[((r % 100) \div 10) + 1], DigitChars[(r % 10) + 1]>>)

\* str(float) of an area count * pi * radius^2 * formula_value, given as the
\* integer count * radius^2 * formula_value (the area in units of pi * 1e-4)
ReprArea(a) == IntToStr(a) \o <<"e-4*pi">>

\* "\n".join(...) inside a template line: the rows as lines; one empty line
\* when there is no row
BlockLines(rows) ==
    IF Len(rows) = 0 THEN << <<"\n">> >> ELSE [i \in 1..Len(rows) |-> rows[i] \o <<"\n">>]

IntRow(row) == Join(<<" ">>, [j \in 1..Len(row) |-> IntToStr(row[j])])
FloatRow(row) == Join(<<" ">>, [j \in 1..Len(row) |-> FormatF6(row[j])])

\* zip(elements, atom_counts) stops at the shorter
ZipLen(a, b) == IF Len(a) < Len(b) THEN Len(a) ELSE Len(b)

\* line 136
SystemName(elements, atom_counts) ==
    Concat([i \in 1..ZipLen(elements, atom_counts) |-> <<elements[i]>> \o IntToStr(atom_counts[i])])

\* lines 147-175: the 2D block, for base_area # None
TwoDParameters(a) ==
    LET adjusted_area == a.base_area[1] * a.formula_value
        layer_rows == IF a.layer_type_matrix # None /\ Len(a.layer_type_matrix[1]) > 0
                      THEN [i \in 1..Len(a.layer_type_matrix[1]) |->
                               IntRow(a.layer_type_matrix[1][i])]
                      ELSE <<>>
        latom_line == IF a.min_latom_dis # None
                      THEN <<"LAtom_Dis = ">> \o ReprRadius(a.min_latom_dis[1])
                      ELSE <<>>
    IN  << <<"\n">>,
           <<"######### The Parameters For 2D Structure Prediction #############\n">>,
           <<"2D = True\n">>,
           <<"MultiLayer = ">> \o IntToStr(a.num_layers) \o <<"\n">>,
           <<"Area = ">> \o ReprArea(adjusted_area) \o <<"\n">>,
           <<"DeltaZ = ", IF a.relax_z THEN "0.1" ELSE "0.0", "\n">>,
           <<"LayerGap=5\n">>,
           <<"VacuumGap=20\n">>,
           <<"@LayerType\n">> >>
        \o BlockLines(layer_rows)
        \o << <<"@End\n">>, latom_line \o <<"\n">>,
              <<"########################END 2D Parameters #########################\n">> >>

\* a buggy variant that scales the matrix with the counts
DistanceOfIonLinesScaled(a) ==
    BlockLines([i \in 1..Len(a.distance_of_ion_matrix) |->
                  FloatRow([j \in 1..Len(a.distance_of_ion_matrix[i]) |->
                              a.distance_of_ion_matrix[i][j] * a.formula_value])])

\* lines 139-141: the rows of the @DistanceOfIon block
DistanceOfIonLines(a) ==
    BlockLines([i \in 1..Len(a.distance_of_ion_matrix) |-> FloatRow(a.distance_of_ion_matrix[i])])

\* lines 177-225: the text of input.dat (comment lines left out; the fixed
\* lines from Ialgo to NumberOfParallel are one atom)
InputContent(a) ==
    << <<"################################ The Basic Parameters of CALYPSO ################################\n">>,
       <<"SystemName = ">> \o SystemName(a.elements, a.atom_counts) \o <<"\n">>,
       <<"NumberOfSpecies = ">> \o IntToStr(Len(a.elements)) \o <<"\n">>,
       <<"NameOfAtoms = ">> \o Join(<<" ">>, [i \in 1..Len(a.elements) |-> <<a.elements[i]>>]) \o <<"\n">>,
       <<"NumberOfAtoms = ">> \o IntRow(a.atom_counts) \o <<"\n">>,
       <<"NumberOfFormula = 1 1\n">>,
       <<"Volume= 0\n">>,
       <<"@DistanceOfIon\n">> >>
    \o DistanceOfIonLines(a)
    \o << <<"@End\n">>,
          <<"Ialgo = 2 ... NumberOfParallel= 3\n">> >>
    \o (IF a.is_2d THEN TwoDParameters(a) ELSE <<>>)
    \o << <<"\n">> >>

\* a buggy variant that writes a placeholder file before validating
CreateInputDatWriteFirst(ds, fs, a) ==
    IF a.is_2d /\ a.base_area = None
    THEN [dirs |-> ds \cup {a.directory},
          files |-> WriteFile(fs, a.directory, "input.dat", <<>>),
          error |-> [type |-> "ValueError", names |-> <<"base_area">>]]
    ELSE [dirs |-> ds \cup {a.directory},
          files |-> WriteFile(fs, a.directory, "input.dat", InputContent(a)),
          error |-> NoError]

\* create_input_dat, lines 133-227: the file system after the call and the
\* exception it raised, if any
CreateInputDat(ds, fs, a) ==
    IF a.is_2d /\ a.base_area = None
    THEN [dirs |-> ds \cup {a.directory}, files |-> fs,
          error |-> [type |-> "ValueError", names |-> <<"base_area">>]]
    ELSE [dirs |-> ds \cup {a.directory},
          files |-> WriteFile(fs, a.directory, "input.dat", InputContent(a)),
          error |-> NoError]

---------------------------------------------------------------------------
(* adjust_input_dat *)

\* str.isspace() on the characters of the model; "\r\n" is a line end kept as
\* one atom
IsWs(c) == c \in {" ", "\n", "\t", "\r", "\r\n"}

RECURSIVE LStrip(_)
LStrip(s) == IF Len(s) > 0 /\ IsWs(s[1]) THEN LStrip(Tail(s)) ELSE s
RECURSIVE RStrip(_)
RStrip(s) == IF Len(s) > 0 /\ IsWs(s[Len(s)]) THEN RStrip(SubSeq(s, 1, Len(s) - 1)) ELSE s
\* str.strip()
Strip(s) == RStrip(LStrip(s))

\* str.split(): the maximal runs of non-whitespace characters
RECURSIVE SplitAcc(_, _, _)
SplitAcc(s, cur, out) ==
    IF Len(s) = 0 THEN (IF Len(cur) = 0 THEN out ELSE Append(out, cur))
    ELSE IF IsWs(s[1])
         THEN SplitAcc(Tail(s), <<>>, IF Len(cur) = 0 THEN out ELSE Append(out, cur))
         ELSE SplitAcc(Tail(s), Append(cur, s[1]), out)
Split(s) == SplitAcc(s, <<>>, <<>>)

\* a buggy variant that also matches an indented field
StartsWithIndented(line, prefix) == Len(LStrip(line)) > 0 /\ LStrip(line)[1] = prefix

\* line.startswith(prefix), for a prefix kept as one atom
StartsWith(line, prefix) == Len(line) > 0 /\ line[1] = prefix

\* a buggy variant that appends the multiplier to the counts as it does to the name
AdjustLineAppend(line, multiplier) ==
    IF StartsWith(line, "SystemName = ")
    THEN Some(<<"SystemName = ">> \o Strip(Tail(line)) \o IntToStr(multiplier) \o <<"\n">>)
    ELSE IF StartsWith(line, "NumberOfAtoms = ")
    THEN LET atoms == Split(Strip(Tail(line)))
         IN  Some(<<"NumberOfAtoms = ">>
                    \o Join(<<" ">>, [i \in 1..Len(atoms) |-> atoms[i] \o IntToStr(multiplier)])
                    \o <<"\n">>)
    ELSE Some(line)

\* lines 251-259: the line written for one line read; None when int() raises
AdjustLine(line, multiplier) ==
    IF StartsWith(line, "SystemName = ")
    THEN Some(<<"SystemName = ">> \o Strip(Tail(line)) \o IntToStr(multiplier) \o <<"\n">>)
    ELSE IF StartsWith(line, "NumberOfAtoms = ")
    THEN LET atoms == Split(Strip(Tail(line)))
         IN  IF \E i \in 1..Len(atoms) : ~IsIntText(atoms[i]) THEN None
             ELSE Some(<<"NumberOfAtoms = ">>
                        \o Join(<<" ">>, [i \in 1..Len(atoms) |->
                                            IntToStr(StrToInt(atoms[i]) * multiplier)])
                        \o <<"\n">>)
    ELSE Some(line)

\* file_path.read_text(): text mode reads every line end, "\n", "\r\n" or
\* "\r", as "\n"; write_text() writes "\n" as it is (POSIX)
ReadText(content) ==
    [i \in 1..Len(content) |->
        LET line == content[i]
        IN  IF Len(line) > 0 /\ line[Len(line)] \in {"\r\n", "\r"}
            THEN [line EXCEPT ![Len(line)] = "\n"]
            ELSE line]

\* adjust_input_dat, lines 246-261: the file system after the call and the
\* exception raised, if any (nothing is written when a line raises)
AdjustInputDat(fs, dir, multiplier) ==
    IF ~FileExists(fs, dir, "input.dat")
    THEN [files |-> fs, error |-> [type |-> "FileNotFoundError", names |-> <<"file_path">>]]
    ELSE LET lines == ReadText(fs[<<dir, "input.dat">>])
             new_content == [i \in 1..Len(lines) |-> AdjustLine(lines[i], multiplier)]
         IN  IF \E i \in 1..Len(lines) : new_content[i] = None
             THEN [files |-> fs, error |-> [type |-> "ValueError", names |-> <<"int">>]]
             ELSE [files |-> WriteFile(fs, dir, "input.dat",
                                       [i \in 1..Len(lines) |-> new_content[i][1]]),
                   error |-> NoError]

---------------------------------------------------------------------------
(* setup_calypso *)

FilesToCopy == <<"INCAR_1", "INCAR_2", "POTCAR", "calypso_fullnode.sh", "calypso.sh", "submit.sh">>

\* lines 267-268
SetupStart ==
    /\ pc = "setup_calypso"
    /\ dirs' = dirs \cup {Root}
    /\ pc' = "find_potcar"
    /\ UNCHANGED <<inputVars, files, potcarVars, setupVars, error, idx, result>>

\* line 274
FormatPstress ==
    /\ pc = "format_pstress"
    /\ LET s == FormatPstressKbar(config.pressure_gpa)
       IN  IF s = None
           THEN /\ error' = [type |-> "ValueError", names |-> <<"Pressure">>]
                /\ pc' = "raised"
                /\ UNCHANGED pstress_kbar_str
           ELSE /\ pstress_kbar_str' = s[1]
                /\ pc' = "write_incars"
                /\ UNCHANGED error
    /\ UNCHANGED <<inputVars, fsVars, potcarVars, distance_of_ion_matrix, base_area,
                   created_directories, unlink_failed, idx, result>>

\* lines 276-314
WriteIncars ==
    /\ pc = "write_incars"
    /\ files' = WriteFile(WriteFile(files, Root, "INCAR_1", Incar1Content(pstress_kbar_str)),
                          Root, "INCAR_2", Incar2Content(pstress_kbar_str))
    /\ pc' = "write_scripts"
    /\ UNCHANGED <<inputVars, dirs, potcarVars, setupVars, error, idx, result>>

\* lines 316-372
WriteScripts ==
    /\ pc = "write_scripts"
    /\ files' = WriteFile(WriteFile(WriteFile(files,
                    Root, "calypso_fullnode.sh", CalypsoFullnodeContent(config.calypso_executable)),
                    Root, "calypso.sh", CalypsoContent(config.calypso_executable)),
                    Root, "submit.sh", SubmitShContent(config.vasp_executable))
    /\ pc' = "distance_of_ion"
    /\ UNCHANGED <<inputVars, dirs, potcarVars, setupVars, error, idx, result>>

\* max(rwigs_values, key=rwigs_values.get): the first key with the greatest value
MaxKey(rwigs) ==
    rwigs[CHOOSE i \in 1..Len(rwigs) :
            /\ \A j \in 1..Len(rwigs) : rwigs[j][2] <= rwigs[i][2]
            /\ \A j \in 1..(i - 1) : rwigs[j][2] < rwigs[i][2]][1]

\* lines 374-392; max() of an empty dict raises ValueError
DistanceAndArea ==
    /\ pc = "distance_of_ion"
    /\ distance_of_ion_matrix' = CalculateDistanceOfIon(rwigs_values)
    /\ IF config.is_2d
       THEN IF Len(rwigs_values) = 0
            THEN /\ error' = [type |-> "ValueError", names |-> <<"max">>]
                 /\ pc' = "raised"
                 /\ UNCHANGED <<base_area, created_directories, idx>>
            ELSE LET element_with_largest_rwigs == MaxKey(rwigs_values)
                     largest_rwigs_value == DictGet(rwigs_values, element_with_largest_rwigs)
                     count_of_element ==
                         config.atom_counts[ListIndex(config.elements, element_with_largest_rwigs)]
                 IN  /\ base_area' = Some(count_of_element * largest_rwigs_value * largest_rwigs_value)
                     /\ created_directories' = <<>>
                     /\ idx' = 1
                     /\ pc' = "multipliers"
                     /\ UNCHANGED error
       ELSE /\ base_area' = None
            /\ created_directories' = <<>>
            /\ idx' = 1
            /\ pc' = "multipliers"
            /\ UNCHANGED error
    /\ UNCHANGED <<inputVars, fsVars, potcarVars, pstress_kbar_str, unlink_failed, result>>

\* lines 420-421: shutil.copy of each name in turn; stops at a missing source
RECURSIVE CopyFiles(_, _, _)
CopyFiles(fs, names, toDir) ==
    IF Len(names) = 0 THEN [files |-> fs, error |-> NoError]
    ELSE IF ~FileExists(fs, Root, names[1])
         THEN [files |-> fs, error |-> [type |-> "FileNotFoundError", names |-> <<names[1]>>]]
         ELSE CopyFiles(CopyFile(fs, Root, toDir, names[1]), Tail(names), toDir)

\* a buggy variant that scales the counts by the position of the multiplier
AdjustedAtomCountsByPosition(atom_counts, formula_value, position) ==
    [i \in 1..Len(atom_counts) |-> atom_counts[i] * position]

\* line 398
AdjustedAtomCounts(atom_counts, formula_value, position) ==
    [i \in 1..Len(atom_counts) |-> atom_counts[i] * formula_value]

\* what may fail in one iteration, by the file system's choice: mkdir of the
\* subdirectory, the write of input.dat, the copy of one shared file
IoFaults == {"mkdir", "input.dat"} \cup {FilesToCopy[i] : i \in 1..Len(FilesToCopy)}

\* lines 394-424: one iteration of the loop over the multipliers; an OSError
\* of mkdir, write_text or shutil.copy ends the run where it is raised
ProcessMultiplier ==
    /\ pc = "multipliers"
    /\ idx <= Len(config.formula_multipliers)
    /\ \E failing \in {"none"} \cup IoFaults :
       LET formula_value == config.formula_multipliers[idx]
           new_dir_path == IntToStr(formula_value)
           adjusted_atom_counts == AdjustedAtomCounts(config.atom_counts, formula_value, idx)
           adjusted_layer_type_matrix ==
               IF config.is_2d /\ config.layer_type_matrix # None
                              /\ Len(config.layer_type_matrix[1]) > 0
               THEN Some([i \in 1..Len(config.layer_type_matrix[1]) |->
                            [j \in 1..Len(config.layer_type_matrix[1][i]) |->
                                config.layer_type_matrix[1][i][j] * formula_value]])
               ELSE None
           made == CreateInputDat(dirs \cup {new_dir_path}, files,
                       [directory |-> new_dir_path,
                        elements |-> config.elements,
                        atom_counts |-> adjusted_atom_counts,
                        distance_of_ion_matrix |-> distance_of_ion_matrix,
                        min_latom_dis |-> min_latom_dis,
                        is_2d |-> config.is_2d,
                        num_layers |-> config.num_layers,
                        relax_z |-> config.relax_z,
                        base_area |-> base_area,
                        layer_type_matrix |-> adjusted_layer_type_matrix,
                        formula_value |-> formula_value])
           to_copy == IF failing \in {"none", "mkdir", "input.dat"} THEN FilesToCopy
                      ELSE SubSeq(FilesToCopy, 1, ListIndex(FilesToCopy, failing) - 1)
           copied == CopyFiles(made.files, to_copy, new_dir_path)
           os_error == [type |-> "OSError", names |-> <<failing>>]
       IN  IF failing = "mkdir"
           THEN /\ error' = os_error
                /\ pc' = "raised"
                /\ UNCHANGED <<dirs, files, created_directories, idx>>
           ELSE
           /\ dirs' = made.dirs
           /\ IF made.error # NoError
              THEN /\ files' = made.files
                   /\ error' = made.error
                   /\ pc' = "raised"
                   /\ UNCHANGED <<created_directories, idx>>
              ELSE IF failing = "input.dat"
              THEN /\ error' = os_error
                   /\ pc' = "raised"
                   /\ UNCHANGED <<files, created_directories, idx>>
              ELSE IF copied.error # NoError
              THEN /\ files' = copied.files
                   /\ error' = copied.error
                   /\ pc' = "raised"
                   /\ UNCHANGED <<created_directories, idx>>
              ELSE IF failing # "none"
              THEN /\ files' = copied.files
                   /\ error' = os_error
                   /\ pc' = "raised"
                   /\ UNCHANGED <<created_directories, idx>>
              ELSE /\ files' = copied.files
                   /\ created_directories' = Append(created_directories, <<Root, new_dir_path>>)
                   /\ idx' = idx + 1
                   /\ UNCHANGED <<pc, error>>
    /\ UNCHANGED <<inputVars, potcarVars, pstress_kbar_str, distance_of_ion_matrix,
                   base_area, unlink_failed, result>>

\* the loop over the multipliers is over: go on to the cleanup loop
MultipliersDone ==
    /\ pc = "multipliers"
    /\ idx > Len(config.formula_multipliers)
    /\ idx' = 1
    /\ pc' = "cleanup"
    /\ UNCHANGED <<inputVars, fsVars, potcarVars, setupVars, error, result>>

\* a buggy variant without the try/except: a failing unlink() ends the run
CleanupFileFatal ==
    /\ pc = "cleanup"
    /\ idx <= Len(FilesToCopy)
    /\ \E unlink_ok \in BOOLEAN :
          IF unlink_ok /\ FileExists(files, Root, FilesToCopy[idx])
          THEN /\ files' = Unlink(files, Root, FilesToCopy[idx])
               /\ idx' = idx + 1
               /\ UNCHANGED <<unlink_failed, pc, error>>
          ELSE /\ unlink_failed' = unlink_failed \cup {FilesToCopy[idx]}
               /\ error' = [type |-> "OSError", names |-> <<FilesToCopy[idx]>>]
               /\ pc' = "raised"
               /\ UNCHANGED <<files, idx>>
    /\ UNCHANGED <<inputVars, dirs, potcarVars, pstress_kbar_str, distance_of_ion_matrix,
                   base_area, created_directories, result>>

\* lines 426-430: one iteration of the cleanup loop; unlink() either removes
\* the file or raises (the file system's choice), and the exception is printed
CleanupFile ==
    /\ pc = "cleanup"
    /\ idx <= Len(FilesToCopy)
    /\ \E unlink_ok \in BOOLEAN :
          IF unlink_ok /\ FileExists(files, Root, FilesToCopy[idx])
          THEN /\ files' = Unlink(files, Root, FilesToCopy[idx])
               /\ UNCHANGED unlink_failed
          ELSE /\ unlink_failed' = unlink_failed \cup {FilesToCopy[idx]}
               /\ UNCHANGED files
    /\ idx' = idx + 1
    /\ UNCHANGED <<inputVars, dirs, potcarVars, pstress_kbar_str, distance_of_ion_matrix,
                   base_area, created_directories, pc, error, result>>

\* line 432
SetupReturn ==
    /\ pc = "cleanup"
    /\ idx > Len(FilesToCopy)
    /\ result' = Some(created_directories)
    /\ pc' = "returned"
    /\ UNCHANGED <<inputVars, fsVars, potcarVars, setupVars, error, idx>>

---------------------------------------------------------------------------
(* Inputs *)

Elements == {"Fe", "O"}

\* element lists with their atom counts: empty, one element, two elements in
\* both orders, the same element twice
ElementChoices ==
    { [elements |-> <<>>, atom_counts |-> <<>>],
      [elements |-> <<"Fe">>, atom_counts |-> <<1>>],
      [elements |-> <<"Fe", "O">>, atom_counts |-> <<2, 3>>],
      [elements |-> <<"O", "Fe">>, atom_counts |-> <<1, 12>>],
      [elements |-> <<"Fe", "Fe">>, atom_counts |-> <<1, 2>>] }

DirNames == {<<e, Suffixes[i]>> : e \in Elements, i \in 1..Len(Suffixes)}

\* POTCAR texts: a pair whose second number is the lesser; one occurrence;
\* occurrences without a pair; a pair after a lone occurrence, with a smaller
\* lone occurrence after it; no occurrence at all
TextPair == <<Txt, Rwigs(120), Semi, Rwigs(110), Txt>>
TextSingle == <<Txt, Rwigs(80), Txt>>
TextSingles == <<Rwigs(130), Txt, Rwigs(50), Txt, Rwigs(90)>>
TextPairLater == <<Rwigs(95), Txt, Rwigs(70), Semi, Rwigs(100), Semi, Rwigs(60)>>
TextNoRwigs == <<Txt>>

\* two ways of filling the variant directories of the tree
TextsA(d) ==
    CASE d[2] = "_pv" -> Some(TextPair)
      [] d[2] = "_sv" -> Some(TextSingles)
      [] d[2] = "" -> IF d[1] = "Fe" THEN Some(TextPairLater) ELSE Some(TextSingle)
      [] OTHER -> Some(TextNoRwigs)
TextsB(d) ==
    CASE d[2] = "_pv" -> IF d[1] = "Fe" THEN Some(TextSingle) ELSE None
      [] d[2] = "_sv" -> Some(TextNoRwigs)
      [] d[2] = "" -> Some(TextPair)
      [] OTHER -> Some(TextPairLater)

PotcarTrees ==
    { [dirs |-> ds, text |-> [d \in ds |-> IF a THEN TextsA(d) ELSE TextsB(d)]] :
        ds \in SUBSET DirNames, a \in BOOLEAN }

FreshLocals ==
    /\ dirs = {}
    /\ files = NoFiles
    /\ error = NoError
    /\ idx = 0
    /\ potcar_content = <<>>
    /\ potcar_paths = <<>>
    /\ rwigs_values = <<>>
    /\ picked_rwigs = <<>>
    /\ min_latom_dis = None
    /\ pstress_kbar_str = <<>>
    /\ distance_of_ion_matrix = <<>>
    /\ base_area = None
    /\ created_directories = <<>>
    /\ unlink_failed = {}
    /\ result = None

---------------------------------------------------------------------------
(* SpecPotcar: one call of find_potcar on any tree *)

InitPotcar ==
    /\ entry = "find_potcar"
    /\ \E ec \in ElementChoices : config = [elements |-> ec.elements]
    /\ potcar_root \in PotcarTrees
    /\ pc = "find_potcar"
    /\ FreshLocals

NextPotcar == FindPotcarStart \/ FindPotcarElement \/ FindPotcarWrite

SpecPotcar == InitPotcar /\ [][NextPotcar]_vars

---------------------------------------------------------------------------
(* Spec: one call of setup_calypso on a fresh destination *)

\* the lists of formula multipliers: up to MaxMults values in 1..MaxMult
MultiplierLists == UNION {[1..n -> 1..MaxMult] : n \in 0..MaxMults}

\* pressures in GPa: -1.0, 5.0 and 12.34
PressureChoices == {Dec(TRUE, <<1>>, 1), Dec(FALSE, <<5>>, 1), Dec(FALSE, <<1, 2, 3, 4>>, 2)}

\* not 2D; 2D with the defaults; 2D with z relaxation and a layer matrix
Mode2DChoices ==
    { [is_2d |-> FALSE, num_layers |-> 1, relax_z |-> FALSE, layer_type_matrix |-> None],
      [is_2d |-> TRUE, num_layers |-> 1, relax_z |-> FALSE, layer_type_matrix |-> None],
      [is_2d |-> TRUE, num_layers |-> 2, relax_z |-> TRUE,
       layer_type_matrix |-> Some(<<(<<1, 0>>), (<<1, 3>>)>>)] }

\* trees in which each element resolves (Fe to 1.10, O to 0.80), has no
\* variant directory, or has only a file without RWIGS
SetupTrees ==
    { [dirs |-> fe \cup o, text |-> [d \in fe \cup o |-> TextsA(d)]] :
        fe \in {{<<"Fe", "_pv">>, <<"Fe", "_s">>}, {}, {<<"Fe", "_s">>}},
        o \in {{<<"O", "">>, <<"O", "_s">>}, {}, {<<"O", "_s">>}} }

Init ==
    /\ entry = "setup_calypso"
    /\ \E ec \in ElementChoices, ms \in MultiplierLists, p \in PressureChoices,
          m2 \in Mode2DChoices :
          config = [elements |-> ec.elements,
                    atom_counts |-> ec.atom_counts,
                    formula_multipliers |-> ms,
                    pressure_gpa |-> p,
                    calypso_executable |-> "/path/to/CALYPSO_x64/bin/calypso.x",
                    vasp_executable |-> "/path/to/vasp_std",
                    is_2d |-> m2.is_2d,
                    num_layers |-> m2.num_layers,
                    relax_z |-> m2.relax_z,
                    layer_type_matrix |-> m2.layer_type_matrix]
    /\ potcar_root \in SetupTrees
    /\ pc = "setup_calypso"
    /\ FreshLocals

Next ==
    \/ SetupStart
    \/ FindPotcarStart
    \/ FindPotcarElement
    \/ FindPotcarWrite
    \/ FormatPstress
    \/ WriteIncars
    \/ WriteScripts
    \/ DistanceAndArea
    \/ ProcessMultiplier
    \/ MultipliersDone
    \/ CleanupFile
    \/ SetupReturn

Spec == Init /\ [][Next]_vars

---------------------------------------------------------------------------
(* SpecHelpers: direct calls of create_input_dat and adjust_input_dat.       *)
(* A behaviour is either one call of create_input_dat into a directory that *)
(* may hold an older input.dat, or the two ways to an input.dat scaled by a *)
(* multiplier: rendered from the scaled counts into "direct", and rendered  *)
(* from the unscaled counts into "scaled" and then adjusted in place.       *)

OldInputDat == << <<"SystemName = ">> \o <<"old">> \o <<"\n">> >>

RadiiChoices(n) == IF n = 0 THEN {<<>>} ELSE IF n = 1 THEN {<<(<<"Fe", 110>>)>>}
                   ELSE {<<(<<"Fe", 110>>), (<<"O", 80>>)>>}

\* the keyword arguments of create_input_dat
KeywordChoices ==
    { [is_2d |-> FALSE, num_layers |-> 1, relax_z |-> FALSE, base_area |-> None,
       layer_type_matrix |-> None],
      [is_2d |-> FALSE, num_layers |-> 1, relax_z |-> FALSE, base_area |-> Some(12100),
       layer_type_matrix |-> None],
      [is_2d |-> TRUE, num_layers |-> 1, relax_z |-> FALSE, base_area |-> None,
       layer_type_matrix |-> None],
      [is_2d |-> TRUE, num_layers |-> 2, relax_z |-> TRUE, base_area |-> None,
       layer_type_matrix |-> Some(<<(<<1, 0>>), (<<1, 3>>)>>)],
      [is_2d |-> TRUE, num_layers |-> 1, relax_z |-> FALSE, base_area |-> Some(12100),
       layer_type_matrix |-> None],
      [is_2d |-> TRUE, num_layers |-> 2, relax_z |-> TRUE, base_area |-> Some(6400),
       layer_type_matrix |-> Some(<<(<<1, 0>>), (<<1, 3>>)>>)] }

CallArgs(directory, atom_counts) ==
    [directory |-> directory,
     elements |-> config.elements,
     atom_counts |-> atom_counts,
     distance_of_ion_matrix |-> config.distance_of_ion_matrix,
     min_latom_dis |-> config.min_latom_dis,
     is_2d |-> config.is_2d,
     num_layers |-> config.num_layers,
     relax_z |-> config.relax_z,
     base_area |-> config.base_area,
     layer_type_matrix |-> config.layer_type_matrix,
     formula_value |-> config.formula_value]

InitHelpers ==
    /\ entry \in {"create_input_dat", "adjust_input_dat"}
    /\ \E ec \in ElementChoices, kw \in KeywordChoices, m \in 1..(MaxMult + 1),
          mld \in {None, Some(80)}, old \in {NoFiles, WriteFile(NoFiles, <<"tmp">>, "input.dat", OldInputDat)} :
          \E radii \in RadiiChoices(Len(ec.elements)) :
             /\ config = [elements |-> ec.elements,
                          atom_counts |-> ec.atom_counts,
                          distance_of_ion_matrix |-> CalculateDistanceOfIon(radii),
                          min_latom_dis |-> mld,
                          is_2d |-> kw.is_2d,
                          num_layers |-> kw.num_layers,
                          relax_z |-> kw.relax_z,
                          base_area |-> kw.base_area,
                          layer_type_matrix |-> kw.layer_type_matrix,
                          formula_value |-> m,
                          old_files |-> old]
             /\ files = old
             /\ dirs = IF old = NoFiles THEN {} ELSE {<<"tmp">>}
             /\ entry = "adjust_input_dat" => (old = NoFiles /\ mld = None)
    /\ potcar_root = [dirs |-> {}, text |-> <<>>]
    /\ pc = IF entry = "create_input_dat" THEN "create_input_dat" ELSE "render_direct"
    /\ error = NoError
    /\ idx = 0
    /\ potcar_content = <<>>
    /\ potcar_paths = <<>>
    /\ rwigs_values = <<>>
    /\ picked_rwigs = <<>>
    /\ min_latom_dis = None
    /\ pstress_kbar_str = <<>>
    /\ distance_of_ion_matrix = <<>>
    /\ base_area = None
    /\ created_directories = <<>>
    /\ unlink_failed = {}
    /\ result = None

helperFrame == <<inputVars, potcarVars, setupVars, idx, result>>

\* create_input_dat(directory="tmp", ...)
CallCreateInputDat ==
    /\ pc = "create_input_dat"
    /\ LET made == CreateInputDat(dirs, files, CallArgs(<<"tmp">>, config.atom_counts))
       IN  /\ dirs' = made.dirs
           /\ files' = made.files
           /\ error' = made.error
           /\ pc' = IF made.error = NoError THEN "returned" ELSE "raised"
    /\ UNCHANGED helperFrame

\* the orchestrator's way: create_input_dat with the counts scaled beforehand
RenderDirect ==
    /\ pc = "render_direct"
    /\ LET made == CreateInputDat(dirs, files,
                       CallArgs(<<"direct">>,
                                AdjustedAtomCounts(config.atom_counts, config.formula_value, 1)))
       IN  /\ dirs' = made.dirs
           /\ files' = made.files
           /\ error' = made.error
           /\ pc' = IF made.error = NoError THEN "render_base" ELSE "raised"
    /\ UNCHANGED helperFrame

\* the other way, first half: create_input_dat with the unscaled counts
RenderBase ==
    /\ pc = "render_base"
    /\ LET made == CreateInputDat(dirs, files, CallArgs(<<"scaled">>, config.atom_counts))
       IN  /\ dirs' = made.dirs
           /\ files' = made.files
           /\ error' = made.error
           /\ pc' = IF made.error = NoError THEN "adjust_input_dat" ELSE "raised"
    /\ UNCHANGED helperFrame

\* the other way, second half: adjust_input_dat("scaled/input.dat", multiplier)
CallAdjustInputDat ==
    /\ pc = "adjust_input_dat"
    /\ LET done == AdjustInputDat(files, <<"scaled">>, config.formula_value)
       IN  /\ files' = done.files
           /\ error' = done.error
           /\ pc' = IF done.error = NoError THEN "returned" ELSE "raised"
    /\ UNCHANGED <<helperFrame, dirs>>

NextHelpers == CallCreateInputDat \/ RenderDirect \/ RenderBase \/ CallAdjustInputDat

SpecHelpers == InitHelpers /\ [][NextHelpers]_vars

---------------------------------------------------------------------------
(* SpecMatrix: one call of calculate_distance_of_ion on any radius map *)

MatrixElements == {"Fe", "O", "H"}

\* radii in hundredths of an angstrom: 0, 0.80, 1.10 and 1.35
RadiusChoices == {0, 80, 110, 135}

\* the dicts of up to MaxSpecies distinct elements, in any insertion order
RadiusMaps ==
    UNION { { m \in [1..n -> MatrixElements \X RadiusChoices] :
                \A i \in 1..n, j \in 1..n : i # j => m[i][1] # m[j][1] } :
            n \in 0..MaxSpecies }

InitMatrix ==
    /\ entry = "calculate_distance_of_ion"
    /\ \E m \in RadiusMaps : config = [rwigs_values |-> m]
    /\ potcar_root = [dirs |-> {}, text |-> <<>>]
    /\ pc = "calculate_distance_of_ion"
    /\ FreshLocals

\* calculate_distance_of_ion(rwigs_values)
CallCalculateDistanceOfIon ==
    /\ pc = "calculate_distance_of_ion"
    /\ result' = Some(CalculateDistanceOfIon(config.rwigs_values))
    /\ pc' = "returned"
    /\ UNCHANGED <<inputVars, fsVars, potcarVars, setupVars, error, idx>>

NextMatrix == CallCalculateDistanceOfIon

SpecMatrix == InitMatrix /\ [][NextMatrix]_vars

---------------------------------------------------------------------------
(* SpecAdjust: one call of adjust_input_dat on an existing file of any      *)
(* lines                                                                    *)

MaxLines == 3

\* lines without their end: the two fields (the name also with blanks around
\* its value), a count that is no integer, a field indented, another line
LineBodies ==
    { <<"SystemName = ", "F", "e", "1">>,
      <<"SystemName = ", " ", "F", "e", "\t">>,
      <<"NumberOfAtoms = ", "1", " ", " ", "1", "2">>,
      <<"NumberOfAtoms = ", "1", " ", "x">>,
      <<" ", "SystemName = ", "F", "e">>,
      <<"@", "E", "n", "d", " ">> }

LineEnds == {"\n", "\r\n", "\r"}

\* a text as its lines, all with the same line end (the last line may
\* lack it)
TextChoices ==
    UNION { { [i \in 1..n |-> IF i = n /\ ~closed THEN body[i] ELSE Append(body[i], end)] :
                body \in [1..n -> LineBodies], end \in LineEnds, closed \in BOOLEAN }
            : n \in 1..MaxLines }

InitAdjust ==
    /\ entry = "adjust_input_dat"
    /\ \E text \in TextChoices, m \in {1, MaxMult + 1} :
          /\ config = [old_files |-> WriteFile(NoFiles, <<"scaled">>, "input.dat", text),
                       formula_value |-> m]
          /\ files = config.old_files
    /\ dirs = {<<"scaled">>}
    /\ potcar_root = [dirs |-> {}, text |-> <<>>]
    /\ pc = "adjust_input_dat"
    /\ error = NoError
    /\ idx = 0
    /\ potcar_content = <<>>
    /\ potcar_paths = <<>>
    /\ rwigs_values = <<>>
    /\ picked_rwigs = <<>>
    /\ min_latom_dis = None
    /\ pstress_kbar_str = <<>>
    /\ distance_of_ion_matrix = <<>>
    /\ base_area = None
    /\ created_directories = <<>>
    /\ unlink_failed = {}
    /\ result = None

NextAdjust == CallAdjustInputDat

SpecAdjust == InitAdjust /\ [][NextAdjust]_vars

---------------------------------------------------------------------------
(* SpecPstress: one call of setup_calypso for Fe1 and the multiplier 1, on  *)
(* pressures of every shape                                                 *)

\* pressures in GPa: 0, 25.0, 1.234, 12.34, 0.15 (at most six significant
\* digits); 1.2345678 and 0.12345612 (more than six); 0.300000000001 and
\* 0.299999999999 (within 1e-9 of 3 kbar); 12345.67, 99999.97 and 123456.75
\* (six digits and more before the point); 0.000001234 and 0.00001234
\* (small); -1.0
PstressChoices ==
    { Dec(FALSE, <<>>, 0), Dec(FALSE, <<2, 5>>, 2), Dec(FALSE, <<1, 2, 3, 4>>, 1),
      Dec(FALSE, <<1, 2, 3, 4>>, 2), Dec(FALSE, <<1, 5>>, 0),
      Dec(FALSE, <<1, 2, 3, 4, 5, 6, 7, 8>>, 1), Dec(FALSE, <<1, 2, 3, 4, 5, 6, 1, 2>>, 0),
      Dec(FALSE, <<3, 0, 0, 0, 0, 0, 0, 0, 0, 0, 0, 1>>, 0),
      Dec(FALSE, <<2, 9, 9, 9, 9, 9, 9, 9, 9, 9, 9, 9>>, 0),
      Dec(FALSE, <<1, 2, 3, 4, 5, 6, 7>>, 5), Dec(FALSE, <<9, 9, 9, 9, 9, 9, 7>>, 5),
      Dec(FALSE, <<1, 2, 3, 4, 5, 6, 7, 5>>, 6),
      Dec(FALSE, <<1, 2, 3, 4>>, 0 - 5), Dec(FALSE, <<1, 2, 3, 4>>, 0 - 4),
      Dec(TRUE, <<1>>, 1) }

InitPstress ==
    /\ entry = "setup_calypso"
    /\ \E p \in PstressChoices :
          config = [elements |-> <<"Fe">>,
                    atom_counts |-> <<1>>,
                    formula_multipliers |-> <<1>>,
                    pressure_gpa |-> p,
                    calypso_executable |-> "/path/to/CALYPSO_x64/bin/calypso.x",
                    vasp_executable |-> "/path/to/vasp_std",
                    is_2d |-> FALSE,
                    num_layers |-> 1,
                    relax_z |-> FALSE,
                    layer_type_matrix |-> None]
    /\ potcar_root = [dirs |-> {<<"Fe", "_pv">>}, text |-> [d \in {<<"Fe", "_pv">>} |-> TextsA(d)]]
    /\ pc = "setup_calypso"
    /\ FreshLocals

SpecPstress == InitPstress /\ [][Next]_vars

---------------------------------------------------------------------------
(* Claims about find_potcar, checked under SpecPotcar *)

\* the suffix variants tried before s
TriedBefore(s) ==
    CASE s = "_pv" -> {}
      [] s = "_sv" -> {"_pv"}
      [] s = "" -> {"_pv", "_sv"}
      [] s = "_s" -> {"_pv", "_sv", ""}

NoVariantDir(e) == \A s \in {"_pv", "_sv", "", "_s"} : <<e, s>> \notin potcar_root.dirs

NotFoundError(e) == [type |-> "FileNotFoundError", names |-> <<e, "potcar_root">>]

C9_WitnessNotFound ==
    /\ pc = "raised"
    /\ idx = 2
    /\ error = NotFoundError("O")

TextOf(i) == potcar_root.text[potcar_paths[i]][1]
PairAt(text, i) ==
    /\ i + 2 <= Len(text)
    /\ text[i].k = "RWIGS" /\ text[i + 1].k = ";" /\ text[i + 2].k = "RWIGS"
Occurrences(text) == {text[i].v : i \in {j \in 1..Len(text) : text[j].k = "RWIGS"}}

\* the radius the claim gives for a text that has an occurrence
IsClaimedRadius(text, r) ==
    IF \E i \in 1..Len(text) : PairAt(text, i)
    THEN \E i \in 1..Len(text) :
            /\ PairAt(text, i)
            /\ \A j \in 1..(i - 1) : ~PairAt(text, j)
            /\ r \in {text[i].v, text[i + 2].v}
            /\ r <= text[i].v /\ r <= text[i + 2].v
    ELSE r \in Occurrences(text) /\ \A v \in Occurrences(text) : r <= v

\* C10: the radius resolved for an element is the lesser number of the first
\* "RWIGS = a; RWIGS = b" pair of its file when the file has a pair, else the
\* minimum over every RWIGS occurrence; the ValueError is raised exactly when
\* the file read has no occurrence; the returned minimum is the minimum of the
\* radii resolved for the requested elements.
C10_ResolvedRadius ==
    /\ \A i \in 1..Len(picked_rwigs) :
          /\ IsClaimedRadius(TextOf(i), picked_rwigs[i])
          /\ pc = "returned" => DictGet(result[1][1], config.elements[i]) = picked_rwigs[i]
    /\ pc = "raised" =>
          (error.type = "ValueError" <=>
              /\ Len(potcar_paths) = idx
              /\ potcar_root.text[potcar_paths[idx]] # None
              /\ Occurrences(TextOf(idx)) = {})
    /\ pc = "returned" =>
          /\ Len(picked_rwigs) = Len(config.elements)
          /\ IF config.elements = <<>> THEN result[1][2] = None
             ELSE /\ Len(result[1][2]) = 1
                  /\ \E i \in 1..Len(picked_rwigs) : result[1][2][1] = picked_rwigs[i]
                  /\ \A i \in 1..Len(picked_rwigs) : result[1][2][1] <= picked_rwigs[i]

\* Fe resolved from a pair that follows a lone occurrence and precedes a
\* smaller one (95, 70;100;60 gives 70), O from a pair whose second number is
\* the lesser (120;110 gives 110)
C10_Witness ==
    /\ pc = "returned"
    /\ result = Some(<<(<<(<<"Fe", 70>>), (<<"O", 110>>)>>), Some(70)>>)
    /\ TextOf(1) = TextPairLater
    /\ TextOf(2) = TextPair

---------------------------------------------------------------------------
(* Claims about setup_calypso, checked under Spec *)

SharedFiles == {"INCAR_1", "INCAR_2", "POTCAR", "calypso_fullnode.sh", "calypso.sh", "submit.sh"}

\* the directory of a path of the returned list
DirOf(path) == path[2]

\* the subdirectory holds input.dat and a copy of every shared file
SubdirComplete(d) ==
    /\ d \in dirs
    /\ FileExists(files, d, "input.dat")
    /\ \A f \in SharedFiles : FileExists(files, d, f)

\* the lines of a file that begin with a field
FieldLines(content, field) == SelectSeq(content, LAMBDA line : Len(line) > 0 /\ line[1] = field)

\* the integers on a line "Field = n1 n2 ..."
CountsOn(line) ==
    LET words == Split(Tail(line)) IN [i \in 1..Len(words) |-> StrToInt(words[i])]

\* the decimal string of a positive integer: digits, no leading zero, that value
IsDecimalOf(str, n) == IsDigits(str) /\ str[1] # "0" /\ DigitsToNat(str) = n

\* C1 as stated: after a successful run no shared file remains at the
\* destination root, and every per-multiplier subdirectory holds input.dat
\* and its own copy of each shared file.
C1_NoSharedFileRemains ==
    pc = "returned" =>
        /\ \A f \in SharedFiles : ~FileExists(files, Root, f)
        /\ \A i \in 1..Len(result[1]) : SubdirComplete(DirOf(result[1][i]))

\* C1 amended: after a run that returned, a shared file remains at the
\* destination root only if its deletion failed (the failure is printed and
\* the run still returns); every other shared file is gone, and every
\* per-multiplier subdirectory holds input.dat and a copy of each shared file.
C1_SharedFileRemainsOnlyIfUnlinkFailed ==
    pc = "returned" =>
        /\ \A f \in SharedFiles : FileExists(files, Root, f) <=> f \in unlink_failed
        /\ \A i \in 1..Len(config.formula_multipliers) :
              SubdirComplete(IntToStr(config.formula_multipliers[i]))

\* a run over two multipliers in which only the deletion of POTCAR failed
C1_Witness ==
    /\ pc = "returned"
    /\ Len(result[1]) = 2
    /\ unlink_failed = {"POTCAR"}
    /\ {f \in SharedFiles : FileExists(files, Root, f)} = {"POTCAR"}

\* a run over two multipliers in which every deletion succeeded
C1_WitnessClean ==
    /\ pc = "returned"
    /\ Len(result[1]) = 2
    /\ unlink_failed = {}
    /\ \A f \in SharedFiles : ~FileExists(files, Root, f)

\* C2: on success setup_calypso returns one path per formula multiplier, in
\* input order, each destination/<decimal string of the multiplier>, and the
\* input.dat there has one NumberOfAtoms line, whose counts are the base atom
\* counts times that multiplier.
C2_OnePathPerMultiplier ==
    pc = "returned" =>
        /\ Len(result[1]) = Len(config.formula_multipliers)
        /\ \A i \in 1..Len(result[1]) :
              LET m == config.formula_multipliers[i]
                  path == result[1][i]
                  lines == FieldLines(files[<<DirOf(path), "input.dat">>], "NumberOfAtoms = ")
              IN  /\ path[1] = Root
                  /\ IsDecimalOf(DirOf(path), m)
                  /\ Len(lines) = 1
                  /\ CountsOn(lines[1]) = [k \in 1..Len(config.atom_counts) |->
                                              config.atom_counts[k] * m]

\* multipliers 2, 1 over O1 Fe12: directories "2" then "1", counts 2 24 and 1 12
C2_Witness ==
    /\ pc = "returned"
    /\ config.formula_multipliers = <<2, 1>>
    /\ config.atom_counts = <<1, 12>>
    /\ result = Some(<<(<<Root, <<"2">>>>), (<<Root, <<"1">>>>)>>)
    /\ FieldLines(files[<<(<<"2">>), "input.dat">>], "NumberOfAtoms = ")
          = << <<"NumberOfAtoms = ", "2", " ", "2", "4", "\n">> >>

\* the element resolves: a variant directory exists and the file of the
\* first one in priority order has a RWIGS occurrence
Resolves(e) ==
    \E s \in {"_pv", "_sv", "", "_s"} :
        /\ <<e, s>> \in potcar_root.dirs
        /\ \A t \in TriedBefore(s) : <<e, t>> \notin potcar_root.dirs
        /\ potcar_root.text[<<e, s>>] # None
        /\ Occurrences(potcar_root.text[<<e, s>>][1]) # {}

Unresolved == {i \in 1..Len(config.elements) : ~Resolves(config.elements[i])}

\* C3: when the resolution fails for a requested element, at whatever
\* position, the run stops there with that element's error (FileNotFoundError
\* naming the element and the root when it has no variant directory,
\* ValueError when its file has no RWIGS), and nothing is written at the
\* destination: no POTCAR, INCAR, job script or subdirectory.
C3_ResolutionFailureWritesNothing ==
    Unresolved # {} =>
        /\ pc \in {"setup_calypso", "find_potcar", "potcar_loop", "raised"}
        /\ DOMAIN files = {}
        /\ dirs \subseteq {Root}
        /\ result = None
        /\ pc = "raised" =>
              /\ idx \in Unresolved
              /\ \A j \in Unresolved : idx <= j
              /\ error = IF NoVariantDir(config.elements[idx])
                         THEN NotFoundError(config.elements[idx])
                         ELSE [type |-> "ValueError", names |-> <<"RWIGS", "potcar_path">>]

\* the second element's file has no RWIGS, after the first resolved
C3_Witness ==
    /\ pc = "raised"
    /\ idx = 2
    /\ error.type = "ValueError"
    /\ Len(picked_rwigs) = 1
    /\ DOMAIN files = {}

\* the second element has no variant directory, after the first resolved
C3_WitnessNotFound ==
    /\ pc = "raised"
    /\ idx = 2
    /\ error = NotFoundError(config.elements[2])
    /\ Len(picked_rwigs) = 1
    /\ DOMAIN files = {}

\* C4: with a negative pressure and every element resolving, the run fails
\* with the ValueError of the pressure check before INCAR_1, INCAR_2, any job
\* script or any subdirectory is written, and the POTCAR written before the
\* check stays at the destination root.
C4_NegativePressureKeepsPotcar ==
    (IsNegative(config.pressure_gpa) /\ Unresolved = {}) =>
        /\ pc \in {"setup_calypso", "find_potcar", "potcar_loop", "format_pstress", "raised"}
        /\ \A f \in SharedFiles \ {"POTCAR"} : ~FileExists(files, Root, f)
        /\ dirs \subseteq {Root}
        /\ result = None
        /\ pc = "raised" =>
              /\ error = [type |-> "ValueError", names |-> <<"Pressure">>]
              /\ DOMAIN files = {<<Root, "POTCAR">>}
              /\ files[<<Root, "POTCAR">>] = Concat(potcar_content)
              /\ Len(potcar_content) = Len(config.elements)

\* the run over Fe and O stopped at the pressure check, POTCAR in place
C4_Witness ==
    /\ pc = "raised"
    /\ IsNegative(config.pressure_gpa)
    /\ config.elements = <<"Fe", "O">>
    /\ error.names = <<"Pressure">>
    /\ files[<<Root, "POTCAR">>] = TextPair \o TextSingle

\* C6: a deletion that fails in the final cleanup is not fatal: the run goes
\* on through the cleanup (every later shared file is deleted unless its own
\* deletion fails too) and returns the full list of created directories, and
\* every per-multiplier subdirectory keeps input.dat and its shared files.
C6_CleanupFailureNotFatal ==
    unlink_failed # {} =>
        /\ pc \in {"cleanup", "returned"}
        /\ error = NoError
        /\ Len(created_directories) = Len(config.formula_multipliers)
        /\ \A i \in 1..Len(created_directories) : SubdirComplete(DirOf(created_directories[i]))
        /\ \A k \in 1..Len(FilesToCopy) :
              (pc = "returned" \/ k < idx) =>
                  (FilesToCopy[k] \in unlink_failed \/ ~FileExists(files, Root, FilesToCopy[k]))
        /\ pc = "returned" => result = Some(created_directories)

\* the deletion of INCAR_1, the first file, failed; the run deleted the
\* other five and returned both directories
C6_Witness ==
    /\ pc = "returned"
    /\ unlink_failed = {"INCAR_1"}
    /\ {f \in SharedFiles : FileExists(files, Root, f)} = {"INCAR_1"}
    /\ Len(result[1]) = 2
    /\ \A i \in 1..2 : SubdirComplete(DirOf(result[1][i]))

\* the positions of the rows of the block that `marker` opens
BlockRows(content, marker) ==
    {k \in 1..Len(content) :
        \E a \in 1..(k - 1) :
            /\ content[a] = <<marker>>
            /\ \A b \in a..k : content[b] # <<"@End\n">>}

\* the positions at which two files of the same length differ
DiffPositions(c1, c2) == {k \in 1..Len(c1) : c1[k] # c2[k]}

CreatedDirs == {DirOf(created_directories[i]) : i \in 1..Len(created_directories)}

\* the copies of the shared files are the same in both subdirectories
SameSharedFiles(d1, d2) == \A f \in SharedFiles : files[<<d1, f>>] = files[<<d2, f>>]

\* the fields of input.dat that carry the atom counts or the layer matrix
CountPositions(content) ==
    {k \in 1..Len(content) : content[k][1] \in {"SystemName = ", "NumberOfAtoms = "}}
        \cup BlockRows(content, "@LayerType\n")

\* C8 as stated: across the subdirectories of one run the shared files, the
\* distance matrix and the minimum radius are identical, and input.dat
\* differs only in the atom counts (the count fields SystemName and
\* NumberOfAtoms) and, in 2D mode, in the layer-composition rows.
C8_OnlyCountsChange ==
    pc = "returned" =>
        \A d1 \in CreatedDirs, d2 \in CreatedDirs :
            LET c1 == files[<<d1, "input.dat">>]
                c2 == files[<<d2, "input.dat">>]
            IN  /\ SameSharedFiles(d1, d2)
                /\ Len(c1) = Len(c2)
                /\ DiffPositions(c1, c2) \subseteq CountPositions(c1)

\* C8 amended: across the subdirectories of one run the shared files, the
\* distance matrix and the minimum radius are identical, and input.dat
\* differs only in the atom counts (SystemName, NumberOfAtoms) and, in 2D
\* mode, in the layer-composition rows and in the Area value, which is the
\* base area times the multiplier.
C8_OnlyCountsAndAreaChange ==
    pc = "returned" =>
        \A d1 \in CreatedDirs, d2 \in CreatedDirs :
            LET c1 == files[<<d1, "input.dat">>]
                c2 == files[<<d2, "input.dat">>]
            IN  /\ SameSharedFiles(d1, d2)
                /\ Len(c1) = Len(c2)
                /\ DiffPositions(c1, c2) \subseteq
                      CountPositions(c1) \cup {k \in 1..Len(c1) : c1[k][1] = "Area = "}
                /\ \A k \in BlockRows(c1, "@DistanceOfIon\n") : c1[k] = c2[k]
                /\ FieldLines(c1, "LAtom_Dis = ") = FieldLines(c2, "LAtom_Dis = ")
                /\ ~config.is_2d => FieldLines(c1, "Area = ") = <<>>
                /\ config.is_2d =>
                      /\ FieldLines(c1, "LAtom_Dis = ")
                            = << <<"LAtom_Dis = ">> \o ReprRadius(min_latom_dis[1]) \o <<"\n">> >>
                      /\ Len(FieldLines(c1, "Area = ")) = 1
                      /\ Len(FieldLines(c2, "Area = ")) = 1
                      /\ (FieldLines(c1, "Area = ") = FieldLines(c2, "Area = ")) <=> d1 = d2

\* a 2D run over Fe and O with a layer matrix and the multipliers 1, 2: the
\* two input.dat differ in SystemName, NumberOfAtoms, both layer rows and Area
C8_Witness ==
    /\ pc = "returned"
    /\ config.is_2d
    /\ config.layer_type_matrix # None
    /\ config.elements = <<"Fe", "O">>
    /\ config.formula_multipliers = <<1, 2>>
    /\ Cardinality(DiffPositions(files[<<(<<"1">>), "input.dat">>],
                                 files[<<(<<"2">>), "input.dat">>])) = 5
    /\ Cardinality(BlockRows(files[<<(<<"1">>), "input.dat">>], "@DistanceOfIon\n")) = 2

---------------------------------------------------------------------------
(* Claims about create_input_dat and adjust_input_dat, checked under SpecHelpers *)

\* C5: a call of create_input_dat in 2D mode without base_area raises the
\* ValueError about base_area and writes no input.dat: the files of the
\* target directory are as they were before the call.
C5_NoAreaWritesNothing ==
    (entry = "create_input_dat" /\ config.is_2d /\ config.base_area = None
        /\ pc # "create_input_dat") =>
        /\ pc = "raised"
        /\ error = [type |-> "ValueError", names |-> <<"base_area">>]
        /\ files = config.old_files

\* the call raised in an empty target directory, which holds no input.dat
C5_Witness ==
    /\ entry = "create_input_dat"
    /\ pc = "raised"
    /\ config.is_2d /\ config.base_area = None
    /\ config.layer_type_matrix # None
    /\ config.elements = <<"Fe", "O">>
    /\ <<"tmp">> \in dirs
    /\ ~FileExists(files, <<"tmp">>, "input.dat")

BothPathsDone == entry = "adjust_input_dat" /\ pc = "returned"
DirectField(field) == FieldLines(files[<<(<<"direct">>), "input.dat">>], field)
ScaledField(field) == FieldLines(files[<<(<<"scaled">>), "input.dat">>], field)

\* C7 as stated: rendering with the pre-scaled counts and rendering with the
\* unscaled counts followed by adjust_input_dat give the same SystemName and
\* the same NumberOfAtoms field.
C7_BothFieldsEqual ==
    BothPathsDone =>
        /\ DirectField("NumberOfAtoms = ") = ScaledField("NumberOfAtoms = ")
        /\ DirectField("SystemName = ") = ScaledField("SystemName = ")

\* C7 amended: the two paths give the same NumberOfAtoms field, but not the
\* same SystemName: the direct rendering names each element with its scaled
\* count (Fe2O3 times 3 is Fe6O9), adjust_input_dat appends the multiplier to
\* the unscaled name (Fe2O33).
C7_CountsEqualNamesDiffer ==
    BothPathsDone =>
        /\ Len(DirectField("NumberOfAtoms = ")) = 1
        /\ DirectField("NumberOfAtoms = ") = ScaledField("NumberOfAtoms = ")
        /\ CountsOn(ScaledField("NumberOfAtoms = ")[1])
              = [k \in 1..Len(config.atom_counts) |-> config.atom_counts[k] * config.formula_value]
        /\ DirectField("SystemName = ") # ScaledField("SystemName = ")
        /\ ScaledField("SystemName = ")
              = << <<"SystemName = ">>
                   \o Concat([k \in 1..Len(config.elements) |->
                                <<config.elements[k]>> \o IntToStr(config.atom_counts[k])])
                   \o IntToStr(config.formula_value) \o <<"\n">> >>

\* O1 Fe12 times 3: both paths give the counts 3 36; the names are O3Fe36
\* and O1Fe123
C7_Witness ==
    /\ BothPathsDone
    /\ config.formula_value = 3
    /\ DirectField("NumberOfAtoms = ") = << <<"NumberOfAtoms = ", "3", " ", "3", "6", "\n">> >>
    /\ ScaledField("NumberOfAtoms = ") = DirectField("NumberOfAtoms = ")
    /\ DirectField("SystemName = ") = << <<"SystemName = ", "O", "3", "Fe", "3", "6", "\n">> >>
    /\ ScaledField("SystemName = ") = << <<"SystemName = ", "O", "1", "Fe", "1", "2", "3", "\n">> >>

---------------------------------------------------------------------------
(* Claims about calculate_distance_of_ion, checked under SpecMatrix *)

\* the radius of the i-th key of the map
RadiusAt(i) == DictGet(config.rwigs_values, DictKeys(config.rwigs_values)[i])

\* C11: for every radius map (empty and single-element maps too) the matrix
\* is square, indexed in the map's element order, with entry [i][j] equal to
\* (radius[i] + radius[j]) * 0.6; it is symmetric and its diagonal entry is
\* 1.2 times the radius.  Entries are in thousandths, radii in hundredths:
\* 0.6 is 6 thousandths per hundredth, 1.2 is 12.
C11_DistanceMatrix ==
    pc = "returned" =>
        LET n == Len(config.rwigs_values)
            matrix == result[1]
        IN  /\ Len(matrix) = n
            /\ \A i \in 1..n :
                  /\ Len(matrix[i]) = n
                  /\ matrix[i][i] = 12 * RadiusAt(i)
                  /\ \A j \in 1..n :
                        /\ matrix[i][j] = (RadiusAt(i) + RadiusAt(j)) * 6
                        /\ matrix[i][j] = matrix[j][i]

\* the map of the repository's test with other radii: O 0.80 before Fe 1.10
\* gives [[0.96, 1.14], [1.14, 1.32]]
C11_Witness ==
    /\ pc = "returned"
    /\ config.rwigs_values = <<(<<"O", 80>>), (<<"Fe", 110>>)>>
    /\ result = Some(<<(<<960, 1140>>), (<<1140, 1320>>)>>)

\* the empty map gives the empty matrix
C11_WitnessEmpty ==
    /\ pc = "returned"
    /\ config.rwigs_values = <<>>
    /\ result = Some(<<>>)

---------------------------------------------------------------------------
(* Claims about the pressure field, checked under SpecPstress *)

\* the text after "PSTRESS = " in a relaxation-parameter file at the root
PstressField(name) == Tail(FieldLines(files[<<Root, name>>], "PSTRESS = ")[1])

IncarsWritten == FileExists(files, Root, "INCAR_1") /\ FileExists(files, Root, "INCAR_2")

PositionsOf(str, c) == {i \in 1..Len(str) : str[i] = c}

RECURSIVE StripLeadingZeros(_)
StripLeadingZeros(ds) ==
    IF Len(ds) > 0 /\ ds[1] = 0 THEN StripLeadingZeros(Tail(ds)) ELSE ds

\* the number a field text denotes: digits, an optional point and more
\* digits, an optional e+XX or e-XX
FieldValue(str) ==
    LET es == PositionsOf(str, "e")
        mantissa == IF es = {} THEN str ELSE SubSeq(str, 1, (CHOOSE i \in es : TRUE) - 1)
        E == IF es = {} THEN 0 ELSE StrToInt(SubSeq(str, (CHOOSE i \in es : TRUE) + 1, Len(str)))
        ps == PositionsOf(mantissa, ".")
        point == IF ps = {} THEN Len(mantissa) + 1 ELSE CHOOSE i \in ps : TRUE
        chars == SelectSeq(mantissa, LAMBDA c : c # ".")
        all == [i \in 1..Len(chars) |-> DigitValue(chars[i])]
        lead == StripLeadingZeros(all)
        digits == StripTrailingZeros(lead)
    IN  IF Len(digits) = 0 THEN Dec(FALSE, <<>>, 0)
        ELSE Dec(FALSE, digits, (point - 1) - (Len(all) - Len(lead)) + E)

\* the first six significant digits as an integer in 100000..999999
SixOf(x) == DigitsValue([i \in 1..6 |-> IF i <= Len(x.digits) THEN x.digits[i] ELSE 0])

Kbar == TimesTen(config.pressure_gpa)

\* |Kbar - k| < 1e-9 for the integer k
WithinOneBillionth(k) ==
    LET f == FracDigits(Kbar)
        whole == DigitsValue(IntDigits(Kbar))
    IN  \/ k = whole /\ \A i \in 1..9 : i <= Len(f) => f[i] = 0
        \/ k = whole + 1 /\ Len(f) > 9 /\ \A i \in 1..9 : f[i] = 9

KbarNearInteger == \E k \in {DigitsValue(IntDigits(Kbar)), DigitsValue(IntDigits(Kbar)) + 1} :
                      WithinOneBillionth(k)

\* C12 as stated: for a non-negative pressure the field of both files is the
\* pressure times 10: a bare integer when that is within 1e-9 of an integer,
\* else a decimal that denotes the scaled value.
C12_FieldEqualsScaledPressure ==
    (~IsNegative(config.pressure_gpa) /\ IncarsWritten) =>
        /\ PstressField("INCAR_1") = PstressField("INCAR_2")
        /\ IF KbarNearInteger
           THEN /\ IsDigits(PstressField("INCAR_1"))
                /\ WithinOneBillionth(DigitsToNat(PstressField("INCAR_1")))
           ELSE FieldValue(PstressField("INCAR_1")) = Kbar

\* C12 amended: for a non-negative pressure both files carry the same field:
\* a bare integer when pressure * 10 is within 1e-9 of it, else pressure * 10
\* in "%.6g" form, that is rounded to at most six significant digits (equal
\* to pressure * 10 only when that has at most six), without trailing zeros,
\* in exponent notation when the rounded value is 1e6 or more, or below 1e-4.
C12_FieldIsSixDigitRounding ==
    (~IsNegative(config.pressure_gpa) /\ IncarsWritten) =>
        LET field == PstressField("INCAR_1")
            v == FieldValue(field)
        IN  /\ field = PstressField("INCAR_2")
            /\ IF KbarNearInteger
               THEN /\ IsDigits(field)
                    /\ field[1] = "0" => Len(field) = 1
                    /\ WithinOneBillionth(DigitsToNat(field))
               ELSE /\ Len(v.digits) <= 6
                    /\ Len(Kbar.digits) <= 6 => v = Kbar
                    /\ Len(Kbar.digits) > 6 =>
                          LET up == IF SixOf(Kbar) = 999999
                                    THEN v.exp = Kbar.exp + 1 /\ SixOf(v) = 100000
                                    ELSE v.exp = Kbar.exp /\ SixOf(v) = SixOf(Kbar) + 1
                              down == v.exp = Kbar.exp /\ SixOf(v) = SixOf(Kbar)
                          IN  /\ up \/ down
                              /\ Kbar.digits[7] > 5 => up
                              /\ Kbar.digits[7] < 5 => down
                    /\ field[Len(field)] # "0" \/ PositionsOf(field, ".") = {}
                    /\ PositionsOf(field, "e") # {} <=> (v.exp > 6 \/ v.exp < 0 - 3)

\* 1.2345678 GPa: both files carry 12.3457, not 12.345678
C12_Witness ==
    /\ pc = "returned"
    /\ config.pressure_gpa = Dec(FALSE, <<1, 2, 3, 4, 5, 6, 7, 8>>, 1)
    /\ files[<<(<<"1">>), "INCAR_1">>][18] = <<"PSTRESS = ", "1", "2", ".", "3", "4", "5", "7">>
    /\ files[<<(<<"1">>), "INCAR_2">>][18] = <<"PSTRESS = ", "1", "2", ".", "3", "4", "5", "7">>

\* 25.0 GPa: both files carry 250
C12_WitnessInteger ==
    /\ IncarsWritten
    /\ config.pressure_gpa = Dec(FALSE, <<2, 5>>, 2)
    /\ PstressField("INCAR_1") = <<"2", "5", "0">>
    /\ PstressField("INCAR_2") = <<"2", "5", "0">>

---------------------------------------------------------------------------
(* Claims about adjust_input_dat on any file, checked under SpecAdjust *)

OldLines == config.old_files[<<(<<"scaled">>), "input.dat">>]
NewLines == files[<<(<<"scaled">>), "input.dat">>]

AdjustReturned == entry = "adjust_input_dat" /\ pc = "returned"

IsField(line, field) == Len(line) > 0 /\ line[1] = field

\* "SystemName = " value multiplier "\n", the value without the blanks around it
IsNameAdjusted(old, new) ==
    LET value == Strip(Tail(old))
    IN  /\ Len(new) > Len(value) + 2
        /\ new[1] = "SystemName = "
        /\ SubSeq(new, 2, Len(value) + 1) = value
        /\ IsDecimalOf(SubSeq(new, Len(value) + 2, Len(new) - 1), config.formula_value)
        /\ new[Len(new)] = "\n"

\* "NumberOfAtoms = " and each count times the multiplier, "\n"
IsCountsAdjusted(old, new) ==
    /\ IsField(new, "NumberOfAtoms = ")
    /\ new[Len(new)] = "\n"
    /\ Len(CountsOn(new)) = Len(CountsOn(old))
    /\ \A j \in 1..Len(CountsOn(old)) : CountsOn(new)[j] = CountsOn(old)[j] * config.formula_value

\* the line with its line end, if any, as "\n"
WithNewline(line) ==
    IF Len(line) > 0 /\ line[Len(line)] \in {"\r\n", "\r"}
    THEN SubSeq(line, 1, Len(line) - 1) \o <<"\n">>
    ELSE line

\* C13 as stated: after adjust_input_dat the file has the same number of
\* lines in the same order; a SystemName line has the multiplier appended to
\* its value, a NumberOfAtoms line has each count multiplied, and every
\* other line is the same bytes as before.
C13_OtherLinesByteForByte ==
    AdjustReturned =>
        /\ Len(NewLines) = Len(OldLines)
        /\ \A i \in 1..Len(OldLines) :
              IF IsField(OldLines[i], "SystemName = ") THEN IsNameAdjusted(OldLines[i], NewLines[i])
              ELSE IF IsField(OldLines[i], "NumberOfAtoms = ")
              THEN IsCountsAdjusted(OldLines[i], NewLines[i])
              ELSE NewLines[i] = OldLines[i]

\* C13 amended: as stated, except that every other line keeps its bytes up
\* to its line end, which is written back as "\n" when it was "\r\n" or "\r".
C13_OtherLinesUpToLineEnd ==
    AdjustReturned =>
        /\ Len(NewLines) = Len(OldLines)
        /\ \A i \in 1..Len(OldLines) :
              IF IsField(OldLines[i], "SystemName = ") THEN IsNameAdjusted(OldLines[i], NewLines[i])
              ELSE IF IsField(OldLines[i], "NumberOfAtoms = ")
              THEN IsCountsAdjusted(OldLines[i], NewLines[i])
              ELSE NewLines[i] = WithNewline(OldLines[i])

\* a name, the counts and an indented name that is no field, each ending
\* "\r\n", adjusted by 3
C13_Witness ==
    /\ AdjustReturned
    /\ config.formula_value = 3
    /\ OldLines = << <<"SystemName = ", " ", "F", "e", "\t", "\r\n">>,
                     <<"NumberOfAtoms = ", "1", " ", " ", "1", "2", "\r\n">>,
                     <<" ", "SystemName = ", "F", "e", "\r\n">> >>
    /\ NewLines = << <<"SystemName = ", "F", "e", "3", "\n">>,
                     <<"NumberOfAtoms = ", "3", " ", "3", "6", "\n">>,
                     <<" ", "SystemName = ", "F", "e", "\n">> >>

\* a file of "\n" line ends whose other lines are the same bytes afterwards
C13_WitnessSameBytes ==
    /\ AdjustReturned
    /\ config.formula_value = 3
    /\ OldLines = << <<"@", "E", "n", "d", " ", "\n">>,
                     <<"SystemName = ", "F", "e", "1", "\n">>,
                     <<" ", "SystemName = ", "F", "e">> >>
    /\ NewLines = << <<"@", "E", "n", "d", " ", "\n">>,
                     <<"SystemName = ", "F", "e", "1", "3", "\n">>,
                     <<" ", "SystemName = ", "F", "e">> >>

---------------------------------------------------------------------------
(* Claims about a run of setup_calypso that aborts in the loop over the    *)
(* multipliers, checked under Spec                                          *)

\* the run was ended by an exception of the iteration for multiplier idx
AbortedInLoop == entry = "setup_calypso" /\ pc = "raised" /\ error.type = "OSError"

\* C14: no shared file is deleted from the destination root before every
\* multiplier has been processed; hence when the run aborts while processing
\* the k-th multiplier nothing is returned, the subdirectories of the first
\* k-1 multipliers are complete and every shared file is still at the root.
C14_AbortKeepsEarlierWork ==
    /\ (pc = "multipliers" \/ AbortedInLoop) =>
          \A f \in SharedFiles : FileExists(files, Root, f)
    /\ AbortedInLoop =>
          /\ result = None
          /\ idx \in 1..Len(config.formula_multipliers)
          /\ Len(created_directories) = idx - 1
          /\ \A i \in 1..(idx - 1) :
                \E d \in dirs : /\ IsDecimalOf(d, config.formula_multipliers[i])
                                /\ SubdirComplete(d)

\* the multipliers 1 and 2: the copy of POTCAR into "2" failed, "1" is
\* complete, "2" holds input.dat and the two files copied before
C14_Witness ==
    /\ AbortedInLoop
    /\ config.formula_multipliers = <<1, 2>>
    /\ idx = 2
    /\ error.names = <<"POTCAR">>
    /\ SubdirComplete(<<"1">>)
    /\ FileExists(files, <<"2">>, "input.dat")
    /\ FileExists(files, <<"2">>, "INCAR_2")
    /\ ~FileExists(files, <<"2">>, "POTCAR")
    /\ \A f \in SharedFiles : FileExists(files, Root, f)

---------------------------------------------------------------------------
(* Claims about the radius map and the matrix of input.dat, checked under  *)
(* Spec                                                                     *)

\* find_potcar has returned and the subdirectories made so far hold input.dat
PotcarResolved == entry = "setup_calypso" /\ pc \in {"multipliers", "cleanup", "returned"}

\* the integer of the one line "Field = n"
FieldInt(content, field) == CountsOn(FieldLines(content, field)[1])[1]

\* the matrix block of the file is n by n, for n both the NumberOfSpecies
\* value and the number of atom counts (an empty matrix is written as one
\* blank line, which is no row)
MatrixMatchesSpecies(content) ==
    LET n == FieldInt(content, "NumberOfSpecies = ")
        rows == {k \in BlockRows(content, "@DistanceOfIon\n") : Len(Split(content[k])) > 0}
    IN  /\ Cardinality(rows) = n
        /\ \A k \in rows : Len(Split(content[k])) = n
        /\ Len(CountsOn(FieldLines(content, "NumberOfAtoms = ")[1])) = n

OneEntryPerElement ==
    /\ Len(rwigs_values) = Len(config.elements)
    /\ \A i \in 1..Len(config.elements) : rwigs_values[i][1] = config.elements[i]

\* C15 as stated: whenever find_potcar succeeds, for a list with a repeated
\* element too, the radius map has one entry per requested element in input
\* order, and the matrix of every input.dat has as many rows and columns as
\* the NumberOfSpecies value and as there are atom counts.
C15_MatrixMatchesSpecies ==
    PotcarResolved =>
        /\ OneEntryPerElement
        /\ \A d \in CreatedDirs : MatrixMatchesSpecies(files[<<d, "input.dat">>])

\* the same for lists of distinct elements only
C15_DistinctElementsMatch ==
    (PotcarResolved /\ \A i, j \in 1..Len(config.elements) :
                          config.elements[i] = config.elements[j] => i = j) =>
        /\ OneEntryPerElement
        /\ \A d \in CreatedDirs : MatrixMatchesSpecies(files[<<d, "input.dat">>])

\* O and Fe: the map has O then Fe, the matrix of "1"/input.dat is 2 by 2
C15_Witness ==
    /\ pc = "returned"
    /\ config.elements = <<"O", "Fe">>
    /\ Len(rwigs_values) = 2
    /\ rwigs_values[1][1] = "O"
    /\ <<"1">> \in CreatedDirs
    /\ Cardinality(BlockRows(files[<<(<<"1">>), "input.dat">>], "@DistanceOfIon\n")) = 2

===========================================================================
